---- MODULE Spec2Model ----
(***************************************************************************)
(* Model of the circuit breaker of src/circuitbreaker.go (type Simple).    *)
(*                                                                         *)
(* The program state is the Simple struct (tripped, cbFactor, metrics and  *)
(* the embedded Config), the error Provision returned, and, per concurrent *)
(* caller of RecordMetric, its position in RecordMetric/checkAndSet and    *)
(* the locals of checkAndSet.  Every statement that touches shared state   *)
(* (the statistics engine, the tripped counter, the timer channel) is one  *)
(* step, so that concurrent calls interleave as goroutines do.             *)
(*                                                                         *)
(* Numbers: Threshold is a float64; the model carries it as an exact       *)
(* fraction [n, d] and only uses values float64 represents exactly.        *)
(* Latencies are time.Duration values in nanoseconds.  TripDuration and    *)
(* the clock are counted in seconds.                                       *)
(***************************************************************************)
EXTENDS Integers, FiniteSets, Sequences, TLC

VARIABLES
    Factor,        \* Config.Factor
    Threshold,     \* Config.Threshold
    TripDuration,  \* Config.TripDuration, in seconds
    tripped,       \* Simple.tripped
    cbFactor,      \* Simple.cbFactor
    metrics,       \* Simple.metrics: <<>> is nil, <<m>> points to engine m
    provErr,       \* what Provision returned: "none" before the call
    pc,            \* pc[p]: where caller p is in RecordMetric/checkAndSet
    err,           \* err[p]: checkAndSet's local err
    lat,           \* lat[p]: checkAndSet's local l, in nanoseconds
    timer,         \* timer[p]: seconds until p's timer t fires
    elapsed,       \* history: seconds since p incremented tripped
    dirty,         \* history: a Record happened since p's Reset
    lastOK         \* <<>>, or <<b, v>>: the last OK() loaded v and returned b

vars == << Factor, Threshold, TripDuration, tripped, cbFactor, metrics,
           provErr, pc, err, lat, timer, elapsed, dirty, lastOK >>

----------------------------------------------------------------------------
(* Bounds of the model *)

\* Observations the environment lets accumulate in one window.
MaxRecords == 3

\* Observations in one window, for the single-caller specification.
SeqRecords == 21

\* The concurrent callers of RecordMetric (goroutines).
Callers == {1, 2}

\* Status codes recorded: a success, a 5xx, a 5xx the engine counts as a
\* network error, and a code outside [0,600).
Statuses == {200, 500, 502, 600}

\* Latencies recorded, in nanoseconds (0.9 ms and 250 ms).
Latencies == {900000, 250000000}

\* Config values as the JSON configuration may give them.
Factors == {"latency", "error_ratio", "status_ratio", "", "bogus"}

Rat(n, d) == [n |-> n, d |-> d]

Thresholds == {Rat(-1, 2), Rat(1, 2), Rat(200, 1)}

TripDurations == {-1, 0, 1}

----------------------------------------------------------------------------
(* Constants of the program *)

factorLatency == 1

factorErrorRatio == 2

factorStatusCodeRatio == 3

\* 5 * time.Second, in seconds
defaultTripDuration == 5

\* time.Millisecond, in nanoseconds
Millisecond == 1000000

\* typeCB, as the set of its key/value pairs
typeCB == { <<"latency", factorLatency>>,
            <<"error_ratio", factorErrorRatio>>,
            <<"status_ratio", factorStatusCodeRatio>> }

----------------------------------------------------------------------------
(* Arithmetic *)

\* a > b on float64 values held as exact fractions with positive denominators
GreaterThan(a, b) == a.n * b.d > b.n * a.d

\* Go's integer division and float-to-integer conversion truncate toward zero
TruncDiv(a, b) == IF a >= 0 THEN a \div b ELSE -((-a) \div b)

RECURSIVE SumOver(_, _)
SumOver(f, S) ==
    IF S = {} THEN 0
    ELSE LET x == CHOOSE y \in S : TRUE
         IN f[x] + SumOver(f, S \ {x})

----------------------------------------------------------------------------
(* The statistics engine, memmetrics.RTMetrics, which the breaker owns    *)
(* and only calls.  Each call is atomic (the engine is safe for           *)
(* concurrent use).  The window holds every observation recorded since    *)
(* the last Reset.                                                         *)

\* The histogram counts latencies in microseconds.
Micros(d) == d \div 1000

HistogramValues == { Micros(d) : d \in Latencies }

NewRTMetrics ==
    [ total       |-> 0,
      netErrors   |-> 0,
      statusCodes |-> [s \in Statuses |-> 0],
      histogram   |-> [v \in HistogramValues |-> 0] ]

\* Record counts the observation; 502 and 504 are also network errors.
Record(m, code, d) ==
    [ total       |-> m.total + 1,
      netErrors   |-> m.netErrors + (IF code \in {502, 504} THEN 1 ELSE 0),
      statusCodes |-> [m.statusCodes EXCEPT ![code] = @ + 1],
      histogram   |-> [m.histogram EXCEPT ![Micros(d)] = @ + 1] ]

NetworkErrorRatio(m) ==
    IF m.total = 0 THEN Rat(0, 1) ELSE Rat(m.netErrors, m.total)

\* Codes in [startA, endA) over codes in [startB, endB); 0 when there are none.
ResponseCodeRatio(m, startA, endA, startB, endB) ==
    LET a == SumOver(m.statusCodes, {s \in Statuses : startA <= s /\ s < endA})
        b == SumOver(m.statusCodes, {s \in Statuses : startB <= s /\ s < endB})
    IN IF b # 0 THEN Rat(a, b) ELSE Rat(0, 1)

\* The histogram keeps two significant figures: values below 256 are exact,
\* and the resolution doubles with each further power of two.
RECURSIVE Resolution(_)
Resolution(v) == IF v < 256 THEN 1 ELSE 2 * Resolution(v \div 2)

HighestEquivalentValue(v) ==
    (v \div Resolution(v)) * Resolution(v) + Resolution(v) - 1

\* The latency at quantile q (a percentage, capped at 100), as a Duration in
\* nanoseconds: the first value, from 0 upwards, at which the running count
\* reaches int64(q/100 * count + 0.5).
LatencyAtQuantile(m, q) ==
    LET qc    == IF GreaterThan(q, Rat(100, 1)) THEN Rat(100, 1) ELSE q
        count == SumOver(m.histogram, HistogramValues)
        rank  == TruncDiv(2 * qc.n * count + 100 * qc.d, 200 * qc.d)
        upTo(v) == SumOver(m.histogram, {w \in HistogramValues : w <= v})
        reach == {v \in HistogramValues : m.histogram[v] > 0 /\ upTo(v) >= rank}
    IN IF count = 0 \/ rank <= 0 THEN 0
       ELSE LET v == CHOOSE x \in reach : \A y \in reach : x <= y
            IN HighestEquivalentValue(v) * 1000

Reset(m) == NewRTMetrics

----------------------------------------------------------------------------
(* The decisions of the code *)

\* f, ok := typeCB[factor]
typeCBHas(factor) == \E e \in typeCB : e[1] = factor

typeCBAt(factor) == (CHOOSE e \in typeCB : e[1] = factor)[2]

\* mutant of DefaultedTripDuration: the default replaces negative values too
DefaultedTripDurationNonPositive(d) ==
    IF d <= 0 THEN defaultTripDuration ELSE d

\* if c.TripDuration == 0 { c.TripDuration = defaultTripDuration }
DefaultedTripDuration(d) == IF d = 0 THEN defaultTripDuration ELSE d

\* mutant of OK: the counter read as a flag
OKFlag == tripped # 1

\* atomic.LoadInt32(&c.tripped) == 0
OK == tripped = 0

\* mutant of ErrorRatioExceeded: >= for >
ErrorRatioReached(m, t) == ~GreaterThan(t, NetworkErrorRatio(m))

\* c.metrics.NetworkErrorRatio() > c.Threshold
ErrorRatioExceeded(m, t) == GreaterThan(NetworkErrorRatio(m), t)

\* mutant of LatencyExceeded: the nanoseconds compared, not the milliseconds
LatencyExceededNanoseconds(l, t) == l > TruncDiv(t.n, t.d)

\* l.Nanoseconds()/int64(time.Millisecond) > int64(c.Threshold)
LatencyExceeded(l, t) == TruncDiv(l, Millisecond) > TruncDiv(t.n, t.d)

\* mutant of StatusCodeRatioExceeded: >= for >
StatusCodeRatioReached(m, t) ==
    ~GreaterThan(t, ResponseCodeRatio(m, 500, 600, 0, 600))

\* c.metrics.ResponseCodeRatio(500, 600, 0, 600) > c.Threshold
StatusCodeRatioExceeded(m, t) ==
    GreaterThan(ResponseCodeRatio(m, 500, 600, 0, 600), t)

\* time.NewTimer(time.Duration(c.Config.TripDuration))
NewTimerDuration == TripDuration

\* positions of a caller between the increment and the decrement of tripped
InEpisode(p) == pc[p] \in {"timer", "wait", "dec"}

----------------------------------------------------------------------------
(* State after construction: new(Simple) with the Config the host loaded *)

InitState ==
    /\ tripped = 0
    /\ cbFactor = 0
    /\ metrics = <<>>
    /\ provErr = "none"
    /\ pc = [p \in Callers |-> "idle"]
    /\ err = [p \in Callers |-> "nil"]
    /\ lat = [p \in Callers |-> 0]
    /\ timer = [p \in Callers |-> 0]
    /\ elapsed = [p \in Callers |-> 0]
    /\ dirty = [p \in Callers |-> FALSE]
    /\ lastOK = <<>>

Init ==
    /\ Factor \in Factors
    /\ Threshold \in Thresholds
    /\ TripDuration \in TripDurations
    /\ InitState

----------------------------------------------------------------------------
(* Provision, called once before the breaker is used *)

\* mutant of Provision: the default duration applied before the factor is
\* looked up
ProvisionDefaultsFirst ==
    /\ provErr = "none"
    /\ TripDuration' = DefaultedTripDuration(TripDuration)
    /\ \/ /\ ~typeCBHas(Factor)
          /\ provErr' = "type is not defined"
          /\ UNCHANGED << cbFactor, metrics, tripped >>
       \/ /\ typeCBHas(Factor)
          /\ \/ /\ provErr' = "cannot create new metrics"
                /\ UNCHANGED << cbFactor, metrics, tripped >>
             \/ /\ cbFactor' = typeCBAt(Factor)
                /\ metrics' = << NewRTMetrics >>
                /\ tripped' = 0
                /\ provErr' = "nil"
    /\ UNCHANGED << Factor, Threshold, pc, err, lat, timer, elapsed, dirty,
                    lastOK >>

\* mutant of Provision: the counter starts at 1
ProvisionTripped ==
    /\ provErr = "none"
    /\ \/ /\ ~typeCBHas(Factor)
          /\ provErr' = "type is not defined"
          /\ UNCHANGED << TripDuration, cbFactor, metrics, tripped >>
       \/ /\ typeCBHas(Factor)
          /\ TripDuration' = DefaultedTripDuration(TripDuration)
          /\ \/ /\ provErr' = "cannot create new metrics"
                /\ UNCHANGED << cbFactor, metrics, tripped >>
             \/ /\ cbFactor' = typeCBAt(Factor)
                /\ metrics' = << NewRTMetrics >>
                /\ tripped' = 1
                /\ provErr' = "nil"
    /\ UNCHANGED << Factor, Threshold, pc, err, lat, timer, elapsed, dirty,
                    lastOK >>

Provision ==
    /\ provErr = "none"
    /\ \/ /\ ~typeCBHas(Factor)
          /\ provErr' = "type is not defined"
          /\ UNCHANGED << TripDuration, cbFactor, metrics, tripped >>
       \/ /\ typeCBHas(Factor)
          /\ TripDuration' = DefaultedTripDuration(TripDuration)
          /\ \/ /\ provErr' = "cannot create new metrics"
                /\ UNCHANGED << cbFactor, metrics, tripped >>
             \/ /\ cbFactor' = typeCBAt(Factor)
                /\ metrics' = << NewRTMetrics >>
                /\ tripped' = 0
                /\ provErr' = "nil"
    /\ UNCHANGED << Factor, Threshold, pc, err, lat, timer, elapsed, dirty,
                    lastOK >>

\* mutant of CallOK: the load also clears the counter
CallOKClears ==
    /\ provErr = "nil"
    /\ lastOK' = << OK, tripped >>
    /\ tripped' = 0
    /\ UNCHANGED << Factor, Threshold, TripDuration, cbFactor,
                    metrics, provErr, pc, err, lat, timer, elapsed, dirty >>

\* mutant of CallOK: the load waits for the calls in their recovery wait
CallOKWaits ==
    /\ provErr = "nil"
    /\ \A p \in Callers : pc[p] # "wait"
    /\ lastOK' = << OK, tripped >>
    /\ UNCHANGED << Factor, Threshold, TripDuration, tripped, cbFactor,
                    metrics, provErr, pc, err, lat, timer, elapsed, dirty >>

(* OK: one atomic load *)
CallOK ==
    /\ provErr = "nil"
    /\ lastOK' = << OK, tripped >>
    /\ UNCHANGED << Factor, Threshold, TripDuration, tripped, cbFactor,
                    metrics, provErr, pc, err, lat, timer, elapsed, dirty >>

----------------------------------------------------------------------------
(* RecordMetric and checkAndSet, one step per shared access *)

config == << Factor, Threshold, TripDuration, cbFactor, provErr >>

\* return from checkAndSet and RecordMetric: the locals go
Return(p) ==
    /\ pc' = [pc EXCEPT ![p] = "idle"]
    /\ err' = [err EXCEPT ![p] = "nil"]
    /\ lat' = [lat EXCEPT ![p] = 0]
    /\ timer' = [timer EXCEPT ![p] = 0]
    /\ elapsed' = [elapsed EXCEPT ![p] = 0]
    /\ dirty' = [dirty EXCEPT ![p] = FALSE]

\* if isTripped { ... }: on to the Reset, or return
Branch(p, isTripped) ==
    IF isTripped
    THEN /\ pc' = [pc EXCEPT ![p] = "reset"]
         /\ UNCHANGED << err, lat, timer, elapsed, dirty >>
    ELSE Return(p)

\* mutant of RecordMetric: a lock held across the recovery wait
RecordMetricSerialized(p, statusCode, latency) ==
    /\ provErr = "nil"
    /\ pc[p] = "idle"
    /\ \A q \in Callers : ~InEpisode(q)
    /\ metrics' = << Record(metrics[1], statusCode, latency) >>
    /\ pc' = [pc EXCEPT ![p] = "check"]
    /\ dirty' = [q \in Callers |-> dirty[q] \/ pc[q] = "inc"]
    /\ UNCHANGED << config, tripped, err, lat, timer, elapsed, lastOK >>

\* c.metrics.Record(statusCode, latency)
RecordMetric(p, statusCode, latency) ==
    /\ provErr = "nil"
    /\ pc[p] = "idle"
    /\ metrics' = << Record(metrics[1], statusCode, latency) >>
    /\ pc' = [pc EXCEPT ![p] = "check"]
    /\ dirty' = [q \in Callers |-> dirty[q] \/ pc[q] = "inc"]
    /\ UNCHANGED << config, tripped, err, lat, timer, elapsed, lastOK >>

\* mutant of checkAndSetErrorRatio: the Reset done before the branch
checkAndSetErrorRatioResets(p) ==
    /\ pc[p] = "check"
    /\ cbFactor = factorErrorRatio
    /\ Branch(p, ErrorRatioExceeded(metrics[1], Threshold))
    /\ metrics' = << Reset(metrics[1]) >>
    /\ UNCHANGED << config, tripped, lastOK >>

\* case factorErrorRatio
checkAndSetErrorRatio(p) ==
    /\ pc[p] = "check"
    /\ cbFactor = factorErrorRatio
    /\ Branch(p, ErrorRatioExceeded(metrics[1], Threshold))
    /\ UNCHANGED << config, tripped, metrics, lastOK >>

\* case factorLatency: hist, err := c.metrics.LatencyHistogram(), which may
\* fail; l is the histogram's latency at quantile c.Threshold
checkAndSetLatencyHistogram(p) ==
    /\ pc[p] = "check"
    /\ cbFactor = factorLatency
    /\ pc' = [pc EXCEPT ![p] = "hist"]
    /\ \/ /\ err' = [err EXCEPT ![p] = "error"]
          /\ UNCHANGED lat
       \/ /\ err' = [err EXCEPT ![p] = "nil"]
          /\ lat' = [lat EXCEPT ![p] = LatencyAtQuantile(metrics[1], Threshold)]
    /\ UNCHANGED << config, tripped, metrics, timer, elapsed, dirty, lastOK >>

\* mutant of checkAndSetLatency: a failed query trips
checkAndSetLatencyErrorTrips(p) ==
    /\ pc[p] = "hist"
    /\ Branch(p, err[p] # "nil" \/ LatencyExceeded(lat[p], Threshold))
    /\ UNCHANGED << config, tripped, metrics, lastOK >>

\* if err != nil { return }; the comparison of l with the threshold
checkAndSetLatency(p) ==
    /\ pc[p] = "hist"
    /\ IF err[p] # "nil"
       THEN Return(p)
       ELSE Branch(p, LatencyExceeded(lat[p], Threshold))
    /\ UNCHANGED << config, tripped, metrics, lastOK >>

\* case factorStatusCodeRatio
checkAndSetStatusCodeRatio(p) ==
    /\ pc[p] = "check"
    /\ cbFactor = factorStatusCodeRatio
    /\ Branch(p, StatusCodeRatioExceeded(metrics[1], Threshold))
    /\ UNCHANGED << config, tripped, metrics, lastOK >>

\* mutant of checkAndSetReset: the counter goes up with the Reset already
checkAndSetResetAndTrip(p) ==
    /\ pc[p] = "reset"
    /\ metrics' = << Reset(metrics[1]) >>
    /\ tripped' = tripped + 1
    /\ pc' = [pc EXCEPT ![p] = "inc"]
    /\ dirty' = [dirty EXCEPT ![p] = FALSE]
    /\ UNCHANGED << config, err, lat, timer, elapsed, lastOK >>

\* mutant of checkAndSetReset: the window is not reset
checkAndSetResetSkipped(p) ==
    /\ pc[p] = "reset"
    /\ pc' = [pc EXCEPT ![p] = "inc"]
    /\ dirty' = [dirty EXCEPT ![p] = FALSE]
    /\ UNCHANGED << config, tripped, metrics, err, lat, timer, elapsed,
                    lastOK >>

\* c.metrics.Reset()
checkAndSetReset(p) ==
    /\ pc[p] = "reset"
    /\ metrics' = << Reset(metrics[1]) >>
    /\ pc' = [pc EXCEPT ![p] = "inc"]
    /\ dirty' = [dirty EXCEPT ![p] = FALSE]
    /\ UNCHANGED << config, tripped, err, lat, timer, elapsed, lastOK >>

\* mutant of checkAndSetTrip: the counter set like a flag
checkAndSetTripStores(p) ==
    /\ pc[p] = "inc"
    /\ tripped' = 1
    /\ pc' = [pc EXCEPT ![p] = "timer"]
    /\ UNCHANGED << config, metrics, err, lat, timer, elapsed, dirty, lastOK >>

\* atomic.AddInt32(&c.tripped, 1)
checkAndSetTrip(p) ==
    /\ pc[p] = "inc"
    /\ tripped' = tripped + 1
    /\ pc' = [pc EXCEPT ![p] = "timer"]
    /\ UNCHANGED << config, metrics, err, lat, timer, elapsed, dirty, lastOK >>

\* t := time.NewTimer(time.Duration(c.Config.TripDuration))
checkAndSetNewTimer(p) ==
    /\ pc[p] = "timer"
    /\ timer' = [timer EXCEPT ![p] = NewTimerDuration]
    /\ pc' = [pc EXCEPT ![p] = "wait"]
    /\ UNCHANGED << config, tripped, metrics, err, lat, elapsed, dirty, lastOK >>

\* mutant of checkAndSetWait: a timer that has just run out is not seen
checkAndSetWaitStrict(p) ==
    /\ pc[p] = "wait"
    /\ timer[p] < 0
    /\ pc' = [pc EXCEPT ![p] = "dec"]
    /\ UNCHANGED << config, tripped, metrics, err, lat, timer, elapsed, dirty,
                    lastOK >>

\* mutant of checkAndSetWait: the call goes on without waiting for the timer
checkAndSetWaitSkipped(p) ==
    /\ pc[p] = "wait"
    /\ pc' = [pc EXCEPT ![p] = "dec"]
    /\ UNCHANGED << config, tripped, metrics, err, lat, timer, elapsed, dirty,
                    lastOK >>

\* <-t.C: the timer fires once its duration has passed
checkAndSetWait(p) ==
    /\ pc[p] = "wait"
    /\ timer[p] <= 0
    /\ pc' = [pc EXCEPT ![p] = "dec"]
    /\ UNCHANGED << config, tripped, metrics, err, lat, timer, elapsed, dirty,
                    lastOK >>

\* mutant of checkAndSetUntrip: the counter cleared like a flag
checkAndSetUntripStores(p) ==
    /\ pc[p] = "dec"
    /\ tripped' = 0
    /\ Return(p)
    /\ UNCHANGED << config, metrics, lastOK >>

\* mutant of checkAndSetUntrip: the decrement forgotten
checkAndSetUntripForgets(p) ==
    /\ pc[p] = "dec"
    /\ tripped' = tripped
    /\ Return(p)
    /\ UNCHANGED << config, metrics, lastOK >>

\* atomic.AddInt32(&c.tripped, -1), and return
checkAndSetUntrip(p) ==
    /\ pc[p] = "dec"
    /\ tripped' = tripped - 1
    /\ Return(p)
    /\ UNCHANGED << config, metrics, lastOK >>

\* One second passes: running timers come a second closer to firing.  The
\* history clock elapsed[p] stops counting at TripDuration.
Tick ==
    /\ \E p \in Callers :
          InEpisode(p) /\ (elapsed[p] < TripDuration \/ timer[p] > 0)
    /\ timer' = [p \in Callers |->
                   IF pc[p] = "wait" /\ timer[p] > 0 THEN timer[p] - 1
                   ELSE timer[p]]
    /\ elapsed' = [p \in Callers |->
                     IF InEpisode(p) /\ elapsed[p] < TripDuration
                     THEN elapsed[p] + 1 ELSE elapsed[p]]
    /\ UNCHANGED << config, tripped, metrics, pc, err, lat, dirty, lastOK >>

----------------------------------------------------------------------------
(* Concurrent callers, any configuration *)

Next ==
    \/ Provision
    \/ CallOK
    \/ \E p \in Callers, s \in Statuses, d \in Latencies :
          /\ provErr = "nil"
          /\ metrics[1].total < MaxRecords
          /\ RecordMetric(p, s, d)
    \/ \E p \in Callers : checkAndSetErrorRatio(p)
    \/ \E p \in Callers : checkAndSetLatencyHistogram(p)
    \/ \E p \in Callers : checkAndSetLatency(p)
    \/ \E p \in Callers : checkAndSetStatusCodeRatio(p)
    \/ \E p \in Callers : checkAndSetReset(p)
    \/ \E p \in Callers : checkAndSetTrip(p)
    \/ \E p \in Callers : checkAndSetNewTimer(p)
    \/ \E p \in Callers : checkAndSetWait(p)
    \/ \E p \in Callers : checkAndSetUntrip(p)
    \/ Tick

Spec == Init /\ [][Next]_vars

----------------------------------------------------------------------------
(* One caller, status_ratio policy, a window of up to SeqRecords          *)
(* observations: the calls of RecordMetric follow one another.            *)

InitSeq ==
    /\ Factor = "status_ratio"
    /\ Threshold \in Thresholds
    /\ TripDuration = 1
    /\ InitState

NextSeq ==
    \/ Provision
    \/ \E p \in {1}, s \in Statuses, d \in {900000} :
          /\ provErr = "nil"
          /\ metrics[1].total < SeqRecords
          /\ RecordMetric(p, s, d)
    \/ \E p \in {1} : checkAndSetStatusCodeRatio(p)
    \/ \E p \in {1} : checkAndSetReset(p)
    \/ \E p \in {1} : checkAndSetTrip(p)
    \/ \E p \in {1} : checkAndSetNewTimer(p)
    \/ \E p \in {1} : checkAndSetWait(p)
    \/ \E p \in {1} : checkAndSetUntrip(p)
    \/ Tick

SpecSeq == InitSeq /\ [][NextSeq]_vars

----------------------------------------------------------------------------
(* Recovery: two callers under the error_ratio policy, with time passing  *)
(* and every call that has incremented the counter being scheduled.       *)

InitLive ==
    /\ Factor = "error_ratio"
    /\ Threshold \in Thresholds
    /\ TripDuration \in TripDurations
    /\ InitState

NextLive ==
    \/ Provision
    \/ \E p \in Callers, s \in {200, 502}, d \in {900000} :
          /\ provErr = "nil"
          /\ metrics[1].total < MaxRecords
          /\ RecordMetric(p, s, d)
    \/ \E p \in Callers : checkAndSetErrorRatio(p)
    \/ \E p \in Callers : checkAndSetReset(p)
    \/ \E p \in Callers : checkAndSetTrip(p)
    \/ \E p \in Callers : checkAndSetNewTimer(p)
    \/ \E p \in Callers : checkAndSetWait(p)
    \/ \E p \in Callers : checkAndSetUntrip(p)
    \/ Tick

\* the timers run, and a goroutine past its increment is scheduled
Fairness ==
    /\ WF_vars(Tick)
    /\ \A p \in Callers :
          /\ WF_vars(checkAndSetNewTimer(p))
          /\ WF_vars(checkAndSetWait(p))
          /\ WF_vars(checkAndSetUntrip(p))

SpecLive == InitLive /\ [][NextLive]_vars /\ Fairness

----------------------------------------------------------------------------
(* Properties *)

ValidFactors == {"latency", "error_ratio", "status_ratio"}

\* caller p takes the step from position a to position b
Step(p, a, b) == pc[p] = a /\ pc'[p] = b

\* C1: on a provisioned breaker OK() is true exactly when the tripped
\* counter is 0: in every state the value OK() would return is
\* (tripped = 0), and every value a call returned is (the counter it
\* loaded = 0).
C1_OKIffTrippedZero ==
    /\ provErr = "nil" => (OK <=> tripped = 0)
    /\ lastOK # <<>> => (lastOK[1] <=> lastOK[2] = 0)

\* C1 witness: an OK() call has returned false while two episodes overlap
C1_Witness ==
    /\ provErr = "nil"
    /\ tripped = 2
    /\ lastOK = << FALSE, 2 >>

\* C2: from a call's increment of tripped until its timer has fired, OK()
\* is false (tripped is not 0), and the timer has fired only when at least
\* TripDuration has passed since the increment.
C2_TrippedForFullDuration ==
    \A p \in Callers :
        /\ InEpisode(p) => tripped # 0 /\ ~OK
        /\ pc[p] = "dec" => elapsed[p] >= TripDuration

\* C2 witness: a timer of the default 5 seconds has fired, 5 seconds after
\* the increment, and the counter is still up
C2_Witness ==
    \E p \in Callers :
        /\ pc[p] = "dec"
        /\ TripDuration = 5
        /\ elapsed[p] = 5
        /\ tripped = 1

\* C3: under status_ratio a call trips iff at its evaluation the count of
\* statuses in [500,600) over the count in [0,600) is > Threshold (0 when
\* no status in [0,600) is in the window); with Threshold 0.5 and ten 200s
\* in the window, up to ten 500s do not trip and the eleventh does.
C3_StatusRatioTripsIffExceeded ==
    [][ \A p \in Callers :
          (cbFactor = factorStatusCodeRatio /\ pc[p] = "check"
             /\ pc'[p] # "check") =>
            LET sc == metrics[1].statusCodes
                a  == sc[500] + sc[502]
                b  == sc[200] + sc[500] + sc[502]
            IN /\ pc'[p] \in {"reset", "idle"}
               /\ pc'[p] = "reset" <=>
                    IF b = 0 THEN 0 > Threshold.n
                    ELSE a * Threshold.d > Threshold.n * b
               /\ (Threshold = Rat(1, 2) /\ sc[200] = 10 /\ sc[502] = 0) =>
                    (pc'[p] = "reset" <=> sc[500] >= 11)
      ]_vars

\* C3 witness: the eleventh 500 after ten 200s has tripped at threshold 0.5
C3_Witness ==
    /\ Threshold = Rat(1, 2)
    /\ pc[1] = "reset"
    /\ metrics[1].statusCodes[200] = 10
    /\ metrics[1].statusCodes[500] = 11
    /\ metrics[1].total = 21

\* C4: under error_ratio a call trips iff at its evaluation the engine's
\* network-error ratio is > Threshold.
C4_ErrorRatioTripsIffExceeded ==
    [][ \A p \in Callers :
          (cbFactor = factorErrorRatio /\ pc[p] = "check"
             /\ pc'[p] # "check") =>
            LET r == NetworkErrorRatio(metrics[1])
            IN /\ pc'[p] \in {"reset", "idle"}
               /\ pc'[p] = "reset" <=> r.n * Threshold.d > Threshold.n * r.d
      ]_vars

\* C4 witness: a call has tripped at threshold 0.5 on 2 network errors of 3
C4_Witness ==
    \E p \in Callers :
        /\ cbFactor = factorErrorRatio
        /\ Threshold = Rat(1, 2)
        /\ pc[p] = "reset"
        /\ metrics[1].netErrors = 2
        /\ metrics[1].total = 3

\* whole milliseconds of a latency l >= 0 in nanoseconds
WholeMillis(l) == l \div 1000000

\* C5 as claimed: under latency, when the histogram query succeeded, a call
\* trips iff floor(L in ms) > t.
C5_LatencyTripsIffAboveThreshold ==
    [][ \A p \in Callers :
          (pc[p] = "hist" /\ err[p] = "nil" /\ pc'[p] # "hist") =>
            (pc'[p] = "reset" <=>
               WholeMillis(lat[p]) * Threshold.d > Threshold.n)
      ]_vars

\* C5 amended: under latency, when the histogram query succeeded, a call
\* trips iff floor(L in ms) > int64(t), the threshold truncated toward zero;
\* for t >= 0 that is floor(L in ms) > t.
C5_LatencyTripsIffAboveTruncated ==
    [][ \A p \in Callers :
          (pc[p] = "hist" /\ err[p] = "nil" /\ pc'[p] # "hist") =>
            LET ms == WholeMillis(lat[p])
                n  == Threshold.n
                d  == Threshold.d
                tt == IF n >= 0 THEN n \div d ELSE 0 - ((0 - n) \div d)
            IN /\ pc'[p] \in {"reset", "idle"}
               /\ pc'[p] = "reset" <=> ms > tt
               /\ n >= 0 => (pc'[p] = "reset" <=> ms * d > n)
      ]_vars

\* C5 witness: a 250 ms latency at the quantile has tripped at threshold 200
C5_Witness ==
    \E p \in Callers :
        /\ cbFactor = factorLatency
        /\ Threshold = Rat(200, 1)
        /\ pc[p] = "reset"
        /\ WholeMillis(lat[p]) = 250

\* C6: under latency, when the histogram query fails the call returns with
\* the tripped counter and the window as they were, without waiting.
C6_HistogramErrorSkips ==
    [][ \A p \in Callers :
          /\ Step(p, "check", "hist") =>
               tripped' = tripped /\ metrics' = metrics
          /\ (pc[p] = "hist" /\ err[p] = "error" /\ pc'[p] # "hist") =>
               /\ pc'[p] = "idle"
               /\ tripped' = tripped
               /\ metrics' = metrics
               /\ timer'[p] = 0
      ]_vars

\* C6 witness: a histogram query has failed on a window that holds
\* observations, while another call's episode is in flight
C6_Witness ==
    \E p \in Callers :
        /\ pc[p] = "hist"
        /\ err[p] = "error"
        /\ metrics[1].total > 0
        /\ tripped = 1

\* C7 as claimed: in the state where a call has just incremented tripped the
\* window is empty, whatever the interleaving.
C7_WindowEmptyAfterTrip ==
    [][ \A p \in Callers :
          Step(p, "inc", "timer") => metrics'[1].total = 0
      ]_vars

\* C7 amended: the window is empty right after the tripping call's Reset;
\* where the call then increments tripped it is empty unless another call
\* recorded an observation between that Reset and the increment.
C7_WindowEmptyAfterReset ==
    [][ \A p \in Callers :
          /\ Step(p, "reset", "inc") => metrics'[1] = NewRTMetrics
          /\ (Step(p, "inc", "timer") /\ ~dirty[p]) =>
               /\ metrics'[1] = NewRTMetrics
               /\ tripped' = tripped + 1
      ]_vars

\* C7 witness: a call has incremented tripped with nothing recorded since
\* its Reset, and the window is empty
C7_Witness ==
    \E p \in Callers :
        /\ pc[p] = "timer"
        /\ ~dirty[p]
        /\ tripped = 1
        /\ metrics[1].total = 0

C9_FactorDefaultsToLatency ==
    (Factor = "" /\ provErr \notin {"none", "cannot create new metrics"}) =>
        (provErr = "nil" /\ cbFactor = factorLatency)

\* C10: a successful Provision turns a TripDuration of 0 into 5 seconds and
\* leaves any other value; afterwards TripDuration does not change and every
\* timer of a trip is started with it.
C10_TripDurationDefault ==
    [][ /\ (provErr = "none" /\ provErr' = "nil") =>
             TripDuration' = IF TripDuration = 0 THEN 5 ELSE TripDuration
        /\ provErr = "nil" => TripDuration' = TripDuration
        /\ \A p \in Callers :
             Step(p, "timer", "wait") => timer'[p] = TripDuration
      ]_vars

\* C10 witness: configured with 0, a trip waits on a timer of 5 seconds
C10_Witness ==
    \E p \in Callers :
        /\ provErr = "nil"
        /\ TripDuration = 5
        /\ pc[p] = "wait"
        /\ timer[p] = 5

\* C11: OK() changes no state: a call leaves the tripped counter, the
\* window, the configuration and every caller as they were, and returns the
\* value a further call right after it returns.
C11_OKChangesNothing ==
    [][ lastOK' # lastOK =>
          /\ UNCHANGED << Factor, Threshold, TripDuration, tripped, cbFactor,
                          metrics, provErr, pc, err, lat, timer >>
          /\ lastOK'[1] <=> (tripped' = 0)
          /\ lastOK'[2] = tripped'
      ]_vars

\* C11 witness: OK() has returned false on a window that holds observations
C11_Witness ==
    /\ lastOK = << FALSE, 1 >>
    /\ tripped = 1
    /\ metrics[1].total > 0

\* C12: OK() never blocks: in every state of a provisioned breaker a call
\* of OK() can take its one step, whoever is in the recovery wait.
C12_OKNeverBlocks ==
    provErr = "nil" => ENABLED CallOK

\* C12 witness: OK() has returned while every caller is parked on a timer
\* that has not fired
C12_Witness ==
    /\ \A p \in Callers : pc[p] = "wait" /\ timer[p] > 0
    /\ lastOK = << FALSE, 2 >>

\* C13: a successful Provision leaves tripped at 0 (OK() true), and the
\* counter leaves 0 only by the increment of a call that found its
\* threshold exceeded.
C13_StartsClosed ==
    [][ /\ (provErr = "none" /\ provErr' = "nil") =>
             (tripped' = 0 /\ \A p \in Callers : pc'[p] = "idle")
        /\ (provErr = "nil" /\ tripped = 0 /\ tripped' # 0) =>
             \E p \in Callers : Step(p, "inc", "timer")
        /\ \A p \in Callers :
             (pc[p] # "reset" /\ pc'[p] = "reset") =>
                 \/ /\ cbFactor = factorErrorRatio
                    /\ GreaterThan(NetworkErrorRatio(metrics[1]), Threshold)
                 \/ /\ cbFactor = factorStatusCodeRatio
                    /\ GreaterThan(ResponseCodeRatio(metrics[1], 500, 600, 0, 600),
                                   Threshold)
                 \/ /\ cbFactor = factorLatency
                    /\ err[p] = "nil"
                    /\ lat[p] \div 1000000 > TruncDiv(Threshold.n, Threshold.d)
      ]_vars

\* C13 witness: provisioned, observations recorded and evaluated, no call
\* has tripped and OK() has returned true
C13_Witness ==
    /\ provErr = "nil"
    /\ tripped = 0
    /\ metrics[1].total = 3
    /\ \A p \in Callers : pc[p] = "idle"
    /\ lastOK = << TRUE, 0 >>

\* the order of a call's positions
PcEdges ==
    { <<"idle", "check">>, <<"check", "idle">>, <<"check", "hist">>,
      <<"hist", "idle">>, <<"check", "reset">>, <<"hist", "reset">>,
      <<"reset", "inc">>, <<"inc", "timer">>, <<"timer", "wait">>,
      <<"wait", "dec">>, <<"dec", "idle">> }

\* C14: a call that found the threshold exceeded resets the window, then
\* increments tripped by 1, then starts its timer and waits for it, then
\* decrements tripped by 1 and returns: each position is left only for the
\* next, the counter moves only in the increment and the decrement, and the
\* decrement comes only after the timer has fired.
C14_TripStepsInOrder ==
    [][ /\ \A p \in Callers :
             /\ pc'[p] # pc[p] => << pc[p], pc'[p] >> \in PcEdges
             /\ Step(p, "reset", "inc") =>
                  (metrics'[1].total = 0 /\ tripped' = tripped)
             /\ Step(p, "inc", "timer") =>
                  (tripped' = tripped + 1 /\ metrics' = metrics)
             /\ Step(p, "timer", "wait") => tripped' = tripped
             /\ Step(p, "wait", "dec") =>
                  (timer[p] <= 0 /\ tripped' = tripped)
             /\ Step(p, "dec", "idle") => tripped' = tripped - 1
        /\ (provErr = "nil" /\ tripped' # tripped) =>
             \E p \in Callers :
                 Step(p, "inc", "timer") \/ Step(p, "dec", "idle")
      ]_vars

\* C14 witness: a call has reset the window, incremented, waited its one
\* second and is about to decrement
C14_Witness ==
    \E p \in Callers :
        /\ pc[p] = "dec"
        /\ TripDuration = 1
        /\ elapsed[p] = 1
        /\ timer[p] = 0
        /\ tripped = 1
        /\ metrics[1].total = 0

EpisodesInFlight == Cardinality({p \in Callers : InEpisode(p)})

\* C15: the tripped counter equals the number of calls that have
\* incremented it and not yet decremented it; it is never negative and is 0
\* exactly when no episode is in flight.
C15_TrippedCountsEpisodes ==
    /\ tripped = EpisodesInFlight
    /\ tripped >= 0
    /\ tripped = 0 <=> \A p \in Callers : ~InEpisode(p)

\* C15 witness: two episodes in flight, one of them just started
C15_Witness ==
    /\ tripped = 2
    /\ EpisodesInFlight = 2
    /\ \E p \in Callers : pc[p] = "timer"

\* C16: episodes overlap: the counter exceeds 1 only with that many calls
\* between increment and decrement, and it comes back to 0 only by the
\* decrement of the last of them.
C16_OverlappingEpisodes ==
    [][ /\ tripped > 1 => EpisodesInFlight = tripped
        /\ (tripped # 0 /\ tripped' = 0) =>
             /\ \A p \in Callers : ~InEpisode(p)'
             /\ \E p \in Callers : Step(p, "dec", "idle")
      ]_vars

\* C16 witness: both calls have incremented and both have been through
\* their wait: the counter is 2 with both about to decrement
C16_Witness ==
    /\ tripped = 2
    /\ \A p \in Callers : pc[p] = "dec"

\* the step caller q takes next, from wherever it is but the recovery wait
CallerStep(q) ==
    \/ \E s \in Statuses, d \in Latencies : RecordMetric(q, s, d)
    \/ checkAndSetErrorRatio(q)
    \/ checkAndSetLatencyHistogram(q)
    \/ checkAndSetLatency(q)
    \/ checkAndSetStatusCodeRatio(q)
    \/ checkAndSetReset(q)
    \/ checkAndSetTrip(q)
    \/ checkAndSetNewTimer(q)
    \/ checkAndSetUntrip(q)

\* C17: a call parked in the recovery wait holds nobody up: every caller
\* that is not itself waiting on its timer can take its next step (record,
\* evaluate, return or start its own episode), whoever else is parked.
C17_WaitDoesNotSerialize ==
    provErr = "nil" =>
        \A q \in Callers : pc[q] # "wait" => ENABLED CallerStep(q)

\* C17 witness: while one call is parked on a running timer that has
\* already counted a second, another has just started its own episode
C17_Witness ==
    \E p, q \in Callers :
        /\ p # q
        /\ pc[p] = "wait"
        /\ TripDuration = 5
        /\ timer[p] = 4
        /\ pc[q] = "timer"
        /\ elapsed[q] = 0

\* no call is about to start an episode
NoTripPending == \A p \in Callers : pc[p] \notin {"reset", "inc"}

\* C18: with the timers running, every call that has incremented tripped
\* decrements it and returns; and if from some point on no call finds the
\* threshold exceeded, the counter reaches 0 and stays there.
C18_RecoveryIsAutomatic ==
    /\ \A p \in Callers : InEpisode(p) ~> (pc[p] = "idle")
    /\ (<>[]NoTripPending) => <>[](tripped = 0)

\* C18 witness: a timer of the default 5 seconds has run out with the call
\* still parked on it
C18_Witness ==
    \E p \in Callers :
        /\ pc[p] = "wait"
        /\ TripDuration = 5
        /\ timer[p] = 0
        /\ elapsed[p] = 5
        /\ tripped = 1

\* C19: when no RecordMetric call is in flight the tripped counter is 0
\* and OK() is true.
C19_IdleMeansClosed ==
    (\A p \in Callers : pc[p] = "idle") => (tripped = 0 /\ OK)

\* C19 witness: every call has returned and the counter is back at 0 after
\* an OK() call saw it at 2
C19_Witness ==
    /\ \A p \in Callers : pc[p] = "idle"
    /\ provErr = "nil"
    /\ tripped = 0
    /\ lastOK = << FALSE, 2 >>

\* C20: a call that does not find the threshold exceeded adds its
\* observation to the window and nothing else: the evaluation that ends in
\* the return leaves the window and the counter as they are, starts no
\* timer, and the Record before it changes only the window, whatever the
\* counter is.
C20_PassingCallOnlyRecords ==
    [][ \A p \in Callers :
          /\ (Step(p, "check", "idle") \/ Step(p, "hist", "idle")) =>
               /\ metrics' = metrics
               /\ tripped' = tripped
               /\ timer'[p] = 0
               /\ \A q \in Callers \ {p} : pc'[q] = pc[q]
          /\ Step(p, "check", "hist") =>
               (metrics' = metrics /\ tripped' = tripped)
          /\ Step(p, "idle", "check") =>
               /\ metrics'[1].total = metrics[1].total + 1
               /\ tripped' = tripped
               /\ \A q \in Callers \ {p} : pc'[q] = pc[q]
      ]_vars

\* C20 witness: with the breaker Open, a call has recorded an observation
\* that leaves the network-error ratio at 0, which no threshold of the
\* policy but the negative one is below
C20_Witness ==
    \E p \in Callers :
        /\ cbFactor = factorErrorRatio
        /\ Threshold = Rat(1, 2)
        /\ pc[p] = "check"
        /\ tripped = 1
        /\ metrics[1].total = 1
        /\ metrics[1].netErrors = 0

====
